---- MODULE Spec2Model ----
(***************************************************************************)
(* Haystack pipelines: the YAML pipeline descriptors (test_pipeline.yaml   *)
(* and the example of the pipelines tutorial), the pipelines the tutorial  *)
(* builds with add_node, its custom nodes, and the execution of a request  *)
(* through a pipeline's node graph.                                        *)
(*                                                                         *)
(* A name with an optional output-edge suffix ("QueryClassifier.output_1") *)
(* is written as its sequence of tokens, <<"QueryClassifier", ".",         *)
(* "output_1">>; a query string is the sequence of its characters.         *)
(***************************************************************************)
EXTENDS Naturals, Sequences, FiniteSets

\* Longest query string of a request.
MaxQueryLen == 3

\* The characters a query is made of.
Chars == {"a", "?"}

\* The values of top_k_retriever the tutorial passes (10 and 5).
TopKs == {5, 10}

\* The file an indexing request converts.
Files == {"sample.pdf"}

Range(s) == {s[i] : i \in DOMAIN s}

SeqsUpTo(S, n) == UNION {[1..k -> S] : k \in 0..n}

Queries == SeqsUpTo(Chars, MaxQueryLen)

\* The keyword arguments of Pipeline.run.
QueryKwargs == [query : Queries, top_k_retriever : TopKs]

FileKwargs == [file_path : Files]

----------------------------------------------------------------------------
(* The descriptors *)

Sentinels == {"Query", "File"}

\* A mistyped input: nothing in the descriptor is named "Retriever".
QueryPipeline_unresolvedInput ==
    [name |-> "query_pipeline", type |-> "Query", nodes |-> <<
        [name |-> "ESRetriever", inputs |-> << <<"Query">> >>],
        [name |-> "Reader", inputs |-> << <<"Retriever">> >>] >>]

QueryPipeline ==
    [name |-> "query_pipeline", type |-> "Query", nodes |-> <<
        [name |-> "ESRetriever", inputs |-> << <<"Query">> >>],
        [name |-> "Reader", inputs |-> << <<"ESRetriever">> >>] >>]

\* A node that names no component: the converter is declared as PDFConverter.
IndexingPipeline_undefinedNode ==
    [name |-> "indexing_pipeline", type |-> "Indexing", nodes |-> <<
        [name |-> "TextConverter", inputs |-> << <<"File">> >>],
        [name |-> "Preprocessor", inputs |-> << <<"TextConverter">> >>],
        [name |-> "ESRetriever", inputs |-> << <<"Preprocessor">> >>],
        [name |-> "DocumentStore", inputs |-> << <<"ESRetriever">> >>] >>]

\* The converter wired to the source of a query pipeline.
IndexingPipeline_queryRoot ==
    [name |-> "indexing_pipeline", type |-> "Indexing", nodes |-> <<
        [name |-> "PDFConverter", inputs |-> << <<"Query">> >>],
        [name |-> "Preprocessor", inputs |-> << <<"PDFConverter">> >>],
        [name |-> "ESRetriever", inputs |-> << <<"Preprocessor">> >>],
        [name |-> "DocumentStore", inputs |-> << <<"ESRetriever">> >>] >>]

IndexingPipeline ==
    [name |-> "indexing_pipeline", type |-> "Indexing", nodes |-> <<
        [name |-> "PDFConverter", inputs |-> << <<"File">> >>],
        [name |-> "Preprocessor", inputs |-> << <<"PDFConverter">> >>],
        [name |-> "ESRetriever", inputs |-> << <<"Preprocessor">> >>],
        [name |-> "DocumentStore", inputs |-> << <<"ESRetriever">> >>] >>]

\* A reference to a component that is not declared: the store is DocumentStore.
ESRetrieverDefinition_danglingStore ==
    [name |-> "ESRetriever", type |-> "ElasticsearchRetriever", params |-> <<
        [key |-> "document_store", value |-> "ElasticsearchStore"],
        [key |-> "custom_query", value |-> "null"] >>]

ESRetrieverDefinition ==
    [name |-> "ESRetriever", type |-> "ElasticsearchRetriever", params |-> <<
        [key |-> "document_store", value |-> "DocumentStore"],
        [key |-> "custom_query", value |-> "null"] >>]

TestPipelineYaml ==
    [components |-> <<
        [name |-> "Reader", type |-> "FARMReader", params |-> <<
            [key |-> "no_ans_boost", value |-> "-10"],
            [key |-> "model_name_or_path", value |-> "deepset/roberta-base-squad2"] >>],
        ESRetrieverDefinition,
        [name |-> "DocumentStore", type |-> "ElasticsearchDocumentStore", params |-> <<
            [key |-> "index", value |-> "haystack_test"],
            [key |-> "label_index", value |-> "haystack_test_label"] >>],
        [name |-> "PDFConverter", type |-> "PDFToTextConverter", params |-> <<
            [key |-> "remove_numeric_tables", value |-> "false"] >>],
        [name |-> "Preprocessor", type |-> "PreProcessor", params |-> <<
            [key |-> "clean_whitespace", value |-> "true"] >>] >>,
     pipelines |-> <<QueryPipeline, IndexingPipeline>>]

\* The example descriptor of the tutorial; its pipeline states no type ("").
TutorialYaml ==
    [components |-> <<
        [name |-> "MyReader", type |-> "FARMReader", params |-> <<
            [key |-> "no_ans_boost", value |-> "-10"],
            [key |-> "model_name_or_path", value |-> "deepset/roberta-base-squad2"] >>],
        [name |-> "MyESRetriever", type |-> "ElasticsearchRetriever", params |-> <<
            [key |-> "document_store", value |-> "MyDocumentStore"],
            [key |-> "custom_query", value |-> "null"] >>],
        [name |-> "MyDocumentStore", type |-> "ElasticsearchDocumentStore", params |-> <<
            [key |-> "index", value |-> "haystack_test"] >>] >>,
     pipelines |-> <<
        [name |-> "my_query_pipeline", type |-> "", nodes |-> <<
            [name |-> "MyESRetriever", inputs |-> << <<"Query">> >>],
            [name |-> "MyReader", inputs |-> << <<"MyESRetriever">> >>] >>] >>]

Docs == {"test_pipeline.yaml", "sample.yaml"}

Descriptor(d) == IF d = "test_pipeline.yaml" THEN TestPipelineYaml ELSE TutorialYaml

\* The parameters whose value is a component (a document store object).
ComponentParamKeys == {"document_store"}

ComponentNames(y) == {c.name : c \in Range(y.components)}

Definition(y, name) == CHOOSE c \in Range(y.components) : c.name = name

PipelineConfig(y, p) == CHOOSE c \in Range(y.pipelines) : c.name = p

----------------------------------------------------------------------------
(* The objects and the pipelines of the tutorial *)

es_retriever == [type |-> "ElasticsearchRetriever", obj |-> "es_retriever", serial |-> 0]

dpr_retriever == [type |-> "DensePassageRetriever", obj |-> "dpr_retriever", serial |-> 0]

reader == [type |-> "FARMReader", obj |-> "reader", serial |-> 0]

JoinDocuments == [type |-> "JoinDocuments", obj |-> "JoinDocuments()", serial |-> 0]

QueryClassifier == [type |-> "QueryClassifier", obj |-> "QueryClassifier()", serial |-> 0]

rag_generator == [type |-> "RAGenerator", obj |-> "rag_generator", serial |-> 0]

\* The cell of the generative pipeline without its last statement: the flag
\* is left set.
PGenerator_noReset == <<
    [op |-> "return_embedding", value |-> TRUE],
    [op |-> "GenerativeQAPipeline", pipeline |-> "p_generator",
     generator |-> rag_generator, retriever |-> dpr_retriever],
    [op |-> "run", pipeline |-> "p_generator"] >>

\* The cell of the generative pipeline: document_store.return_embedding is
\* set, the pipeline is made and run, and the flag is reset.
PGenerator == <<
    [op |-> "return_embedding", value |-> TRUE],
    [op |-> "GenerativeQAPipeline", pipeline |-> "p_generator",
     generator |-> rag_generator, retriever |-> dpr_retriever],
    [op |-> "run", pipeline |-> "p_generator"],
    [op |-> "return_embedding", value |-> FALSE] >>

PExtractive == <<
    [op |-> "Pipeline", pipeline |-> "p_extractive"],
    [op |-> "add_node", pipeline |-> "p_extractive", component |-> es_retriever, name |-> "Retriever",
     inputs |-> << <<"Query">> >>],
    [op |-> "add_node", pipeline |-> "p_extractive", component |-> reader, name |-> "Reader",
     inputs |-> << <<"Retriever">> >>] >>

\* The join node wired to one retriever only.
PEnsemble_joinOneInput == <<
    [op |-> "Pipeline", pipeline |-> "p_ensemble"],
    [op |-> "add_node", pipeline |-> "p_ensemble", component |-> es_retriever, name |-> "ESRetriever",
     inputs |-> << <<"Query">> >>],
    [op |-> "add_node", pipeline |-> "p_ensemble", component |-> dpr_retriever, name |-> "DPRRetriever",
     inputs |-> << <<"Query">> >>],
    [op |-> "add_node", pipeline |-> "p_ensemble", component |-> JoinDocuments, name |-> "JoinResults",
     inputs |-> << <<"ESRetriever">> >>],
    [op |-> "add_node", pipeline |-> "p_ensemble", component |-> reader, name |-> "Reader",
     inputs |-> << <<"JoinResults">> >>] >>

\* The second retriever added under the name of the first.
PEnsemble_duplicateName == <<
    [op |-> "Pipeline", pipeline |-> "p_ensemble"],
    [op |-> "add_node", pipeline |-> "p_ensemble", component |-> es_retriever, name |-> "ESRetriever",
     inputs |-> << <<"Query">> >>],
    [op |-> "add_node", pipeline |-> "p_ensemble", component |-> dpr_retriever, name |-> "ESRetriever",
     inputs |-> << <<"Query">> >>],
    [op |-> "add_node", pipeline |-> "p_ensemble", component |-> JoinDocuments, name |-> "JoinResults",
     inputs |-> << <<"ESRetriever">>, <<"DPRRetriever">> >>],
    [op |-> "add_node", pipeline |-> "p_ensemble", component |-> reader, name |-> "Reader",
     inputs |-> << <<"JoinResults">> >>] >>

PEnsemble == <<
    [op |-> "Pipeline", pipeline |-> "p_ensemble"],
    [op |-> "add_node", pipeline |-> "p_ensemble", component |-> es_retriever, name |-> "ESRetriever",
     inputs |-> << <<"Query">> >>],
    [op |-> "add_node", pipeline |-> "p_ensemble", component |-> dpr_retriever, name |-> "DPRRetriever",
     inputs |-> << <<"Query">> >>],
    [op |-> "add_node", pipeline |-> "p_ensemble", component |-> JoinDocuments, name |-> "JoinResults",
     inputs |-> << <<"ESRetriever">>, <<"DPRRetriever">> >>],
    [op |-> "add_node", pipeline |-> "p_ensemble", component |-> reader, name |-> "Reader",
     inputs |-> << <<"JoinResults">> >>] >>

\* The classifier wired behind the reader it feeds.
PClassifier_cycle == <<
    [op |-> "Pipeline", pipeline |-> "p_classifier"],
    [op |-> "add_node", pipeline |-> "p_classifier", component |-> QueryClassifier, name |-> "QueryClassifier",
     inputs |-> << <<"QAReader">> >>],
    [op |-> "add_node", pipeline |-> "p_classifier", component |-> es_retriever, name |-> "ESRetriever",
     inputs |-> << <<"QueryClassifier", ".", "output_1">> >>],
    [op |-> "add_node", pipeline |-> "p_classifier", component |-> dpr_retriever, name |-> "DPRRetriever",
     inputs |-> << <<"QueryClassifier", ".", "output_2">> >>],
    [op |-> "add_node", pipeline |-> "p_classifier", component |-> reader, name |-> "QAReader",
     inputs |-> << <<"ESRetriever">>, <<"DPRRetriever">> >>] >>

\* Both retrievers wired to the same edge of the classifier.
PClassifier_sameEdge == <<
    [op |-> "Pipeline", pipeline |-> "p_classifier"],
    [op |-> "add_node", pipeline |-> "p_classifier", component |-> QueryClassifier, name |-> "QueryClassifier",
     inputs |-> << <<"Query">> >>],
    [op |-> "add_node", pipeline |-> "p_classifier", component |-> es_retriever, name |-> "ESRetriever",
     inputs |-> << <<"QueryClassifier", ".", "output_1">> >>],
    [op |-> "add_node", pipeline |-> "p_classifier", component |-> dpr_retriever, name |-> "DPRRetriever",
     inputs |-> << <<"QueryClassifier", ".", "output_1">> >>],
    [op |-> "add_node", pipeline |-> "p_classifier", component |-> reader, name |-> "QAReader",
     inputs |-> << <<"ESRetriever">>, <<"DPRRetriever">> >>] >>

PClassifier == <<
    [op |-> "Pipeline", pipeline |-> "p_classifier"],
    [op |-> "add_node", pipeline |-> "p_classifier", component |-> QueryClassifier, name |-> "QueryClassifier",
     inputs |-> << <<"Query">> >>],
    [op |-> "add_node", pipeline |-> "p_classifier", component |-> es_retriever, name |-> "ESRetriever",
     inputs |-> << <<"QueryClassifier", ".", "output_1">> >>],
    [op |-> "add_node", pipeline |-> "p_classifier", component |-> dpr_retriever, name |-> "DPRRetriever",
     inputs |-> << <<"QueryClassifier", ".", "output_2">> >>],
    [op |-> "add_node", pipeline |-> "p_classifier", component |-> reader, name |-> "QAReader",
     inputs |-> << <<"ESRetriever">>, <<"DPRRetriever">> >>] >>

\* pipeline.run(query=..., top_k_retriever=...)
Run(p) == [op |-> "run", pipeline |-> p]

\* The statements of the tutorial from the generative pipeline on, in the
\* order of its cells.
Notebook ==
    PGenerator
        \o PExtractive \o <<Run("p_extractive")>>
        \o PEnsemble \o <<Run("p_ensemble")>>
        \o PClassifier \o <<Run("p_classifier"), Run("p_classifier")>>

NotebookPipelines == {"p_extractive", "p_ensemble", "p_classifier"}

YamlPipelines == {"query_pipeline", "indexing_pipeline", "my_query_pipeline"}

PrebuiltPipelines == {"p_generator"}

Pipelines == PrebuiltPipelines \cup NotebookPipelines \cup YamlPipelines

----------------------------------------------------------------------------
(* The custom nodes of the tutorial *)

NodeTemplate_outgoing_edges == 1

NodeTemplate_run(kwargs) == <<kwargs, "output_1">>

\* The class attribute left at the one edge of the template.
QueryClassifier_outgoing_edges_unset == NodeTemplate_outgoing_edges

QueryClassifier_outgoing_edges == 2

\* The test made on the last character only (endswith).
QueryClassifier_run_endswith(kwargs) ==
    IF kwargs.query # <<>> /\ kwargs.query[Len(kwargs.query)] = "?"
    THEN <<kwargs, "output_2">>
    ELSE <<kwargs, "output_1">>

\* The two edges exchanged.
QueryClassifier_run_swapped(kwargs) ==
    IF \E i \in DOMAIN kwargs.query : kwargs.query[i] = "?"
    THEN <<kwargs, "output_1">>
    ELSE <<kwargs, "output_2">>

QueryClassifier_run(kwargs) ==
    IF \E i \in DOMAIN kwargs.query : kwargs.query[i] = "?"
    THEN <<kwargs, "output_2">>
    ELSE <<kwargs, "output_1">>

CustomNodes == {"NodeTemplate", "QueryClassifier"}

outgoing_edges(type) ==
    CASE type = "NodeTemplate" -> NodeTemplate_outgoing_edges
      [] type = "QueryClassifier" -> QueryClassifier_outgoing_edges
      [] OTHER -> 1

\* The name of a node's i-th outgoing edge.
EdgeName(i) ==
    CASE i = 1 -> "output_1"
      [] i = 2 -> "output_2"
      [] i = 3 -> "output_3"
      [] OTHER -> "output_n"

EdgeNames(type) == {EdgeName(i) : i \in 1..outgoing_edges(type)}

\* component.run(**kwargs): the output data and the name of the outgoing edge.
\* The components of the framework have one outgoing edge; what they add to
\* the data (documents, answers) is left out.
ComponentRun(component, kwargs) ==
    CASE component.type = "QueryClassifier" -> QueryClassifier_run(kwargs)
      [] component.type = "NodeTemplate" -> NodeTemplate_run(kwargs)
      [] OTHER -> <<kwargs, "output_1">>

----------------------------------------------------------------------------
(* The state *)

VARIABLES
    doc,          \* the YAML descriptor pipelines are loaded from
    components,   \* the component instances loaded from it, in order of creation
    graph,        \* per pipeline: its root node and the nodes added to it
    pc,           \* the next statement of the tutorial
    return_embedding,  \* document_store.return_embedding
    running,      \* the pipeline of the current (or last) request, "" before any
    kwargs,       \* the keyword arguments of that request
    pending,      \* the nodes that have input waiting and have not run on it
    ran,          \* the nodes run for the request, in order, with their results
    active,       \* the nodes whose run has been called and has not returned
    ret           \* the result of the last direct call of a custom node's run

vars == <<doc, components, graph, pc, return_embedding, running, kwargs, pending, ran, active, ret>>

NoPipeline == [root |-> "", nodes |-> <<>>]

NoCall == [cls |-> "", kwargs |-> <<>>, data |-> <<>>, edge |-> ""]

Init ==
    /\ doc \in Docs
    /\ components = <<>>
    /\ graph = [p \in Pipelines |-> NoPipeline]
    /\ pc = 1
    /\ return_embedding \in BOOLEAN
    /\ running = ""
    /\ kwargs = <<>>
    /\ pending = {}
    /\ ran = <<>>
    /\ active = {}
    /\ ret = NoCall

----------------------------------------------------------------------------
(* Pipeline: the node graph *)

RootOf(type) == IF type = "Indexing" THEN "File" ELSE "Query"

\* An input "Name" or "Name.output_N": the upstream node, and the edge of
\* it the input takes ("output_1" when the input names none).
InputNode(input) == input[1]

InputEdge(input) == IF Len(input) = 3 THEN input[3] ELSE "output_1"

NodeNames(g) == {n.name : n \in Range(g.nodes)}

Node(g, name) == CHOOSE n \in Range(g.nodes) : n.name = name

\* The edges of the graph: from each input's node to the node that lists it.
Edges(g) ==
    UNION {{[from |-> InputNode(n.inputs[i]), edge |-> InputEdge(n.inputs[i]), to |-> n.name] :
               i \in DOMAIN n.inputs} : n \in Range(g.nodes)}

Predecessors(g, name) == {e.from : e \in {x \in Edges(g) : x.to = name}}

\* The nodes that take the edge `edge` of node `name` as an input.
NextNodes(g, name, edge) ==
    {e.to : e \in {x \in Edges(g) : x.from = name /\ x.edge = edge}}

\* Pipeline(): a graph of the root node alone.
NewPipeline(type) == [root |-> RootOf(type), nodes |-> <<>>]

\* Pipeline.add_node(component, name, inputs)
add_node(g, component, name, inputs) ==
    [g EXCEPT !.nodes = Append(@, [name |-> name, inputs |-> inputs, component |-> component])]

----------------------------------------------------------------------------
(* Pipeline.load_from_yaml: the components *)

\* The lookup that finds nothing: every use of a name creates a component.
IsLoaded_never(name, comps) == FALSE

IsLoaded(name, comps) == \E i \in DOMAIN comps : comps[i].name = name

Instance(name, comps) == CHOOSE c \in Range(comps) : c.name = name

\* The parameters of a definition whose value names a defined component.
References(y, def) ==
    {i \in DOMAIN def.params : def.params[i].value \in ComponentNames(y)}

\* A component is created once: a name that is loaded already gives the
\* instance it has. Otherwise the components its parameters name are loaded
\* first, wherever they are declared, and the new instance refers to them.
RECURSIVE LoadOrGetComponent(_, _, _)
RECURSIVE LoadParams(_, _, _, _)
LoadParams(params, i, y, comps) ==
    IF i > Len(params) THEN comps
    ELSE IF params[i].value \in ComponentNames(y)
         THEN LoadParams(params, i + 1, y, LoadOrGetComponent(params[i].value, y, comps))
         ELSE LoadParams(params, i + 1, y, comps)

LoadOrGetComponent(name, y, comps) ==
    IF IsLoaded(name, comps) THEN comps
    ELSE LET def == Definition(y, name)
             deps == LoadParams(def.params, 1, y, comps)
         IN  Append(deps,
                [name |-> name, type |-> def.type, serial |-> Len(deps) + 1,
                 refs |-> {[key |-> def.params[i].key,
                            serial |-> Instance(def.params[i].value, deps).serial] :
                              i \in References(y, def)}])

\* The component of a node: the instance of the component of that name.
Handle(name, comps) ==
    LET c == Instance(name, comps)
    IN  [type |-> c.type, obj |-> c.name, serial |-> c.serial]

RECURSIVE LoadNodes(_, _, _, _)
LoadNodes(nodes, i, y, st) ==
    IF i > Len(nodes) THEN st
    ELSE LET comps == LoadOrGetComponent(nodes[i].name, y, st.components)
         IN  LoadNodes(nodes, i + 1, y,
                [components |-> comps,
                 graph |-> add_node(st.graph, Handle(nodes[i].name, comps),
                                    nodes[i].name, nodes[i].inputs)])

\* load_from_yaml raises on a node that names no defined component.
CanLoad(y, p) ==
    /\ \E c \in Range(y.pipelines) : c.name = p
    /\ \A n \in Range(PipelineConfig(y, p).nodes) : n.name \in ComponentNames(y)

----------------------------------------------------------------------------
(* The operations *)

Idle == pending = {}

\* The next statement of the tutorial, when it is Pipeline() or add_node.
NotebookStep ==
    /\ Idle
    /\ pc <= Len(Notebook)
    /\ Notebook[pc].op \in {"Pipeline", "add_node"}
    /\ LET st == Notebook[pc]
       IN  graph' = [graph EXCEPT ![st.pipeline] =
                        IF st.op = "Pipeline" THEN NewPipeline("Query")
                        ELSE add_node(@, st.component, st.name, st.inputs)]
    /\ pc' = pc + 1
    /\ UNCHANGED <<doc, components, return_embedding, running, kwargs, pending, ran, active, ret>>

\* document_store.return_embedding = value
SetReturnEmbedding ==
    /\ Idle
    /\ pc <= Len(Notebook)
    /\ Notebook[pc].op = "return_embedding"
    /\ return_embedding' = Notebook[pc].value
    /\ pc' = pc + 1
    /\ UNCHANGED <<doc, components, graph, running, kwargs, pending, ran, active, ret>>

\* GenerativeQAPipeline(generator, retriever): the retriever on the query,
\* and the generator on the retriever.
GenerativeQAPipeline(generator, retriever) ==
    add_node(add_node(NewPipeline("Query"), retriever, "Retriever", << <<"Query">> >>),
             generator, "Generator", << <<"Retriever">> >>)

NewGenerativeQAPipeline ==
    /\ Idle
    /\ pc <= Len(Notebook)
    /\ Notebook[pc].op = "GenerativeQAPipeline"
    /\ LET st == Notebook[pc]
       IN  graph' = [graph EXCEPT ![st.pipeline] =
                        GenerativeQAPipeline(st.generator, st.retriever)]
    /\ pc' = pc + 1
    /\ UNCHANGED <<doc, components, return_embedding, running, kwargs, pending, ran, active, ret>>

\* Pipeline.load_from_yaml(path, pipeline_name = p)
LoadFromYaml(p) ==
    /\ Idle
    /\ CanLoad(Descriptor(doc), p)
    /\ LET y == Descriptor(doc)
           cfg == PipelineConfig(y, p)
           st == LoadNodes(cfg.nodes, 1, y,
                    [components |-> components, graph |-> NewPipeline(cfg.type)])
       IN  /\ components' = st.components
           /\ graph' = [graph EXCEPT ![p] = st.graph]
    /\ UNCHANGED <<doc, pc, return_embedding, running, kwargs, pending, ran, active, ret>>

\* A pipeline can be run once it is made.
Built(p) == graph[p].root # ""

\* Pipeline.run(**k), up to the root node's output.
BeginRequest(p, k) ==
    /\ k \in (IF graph[p].root = "File" THEN FileKwargs ELSE QueryKwargs)
    /\ running' = p
    /\ kwargs' = k
    /\ ran' = <<>>
    /\ pending' = NextNodes(graph[p], graph[p].root, "output_1")

\* A request to a pipeline loaded from the descriptor.
Start(p, k) ==
    /\ Idle
    /\ Built(p)
    /\ BeginRequest(p, k)
    /\ UNCHANGED <<doc, components, graph, pc, return_embedding, active, ret>>

\* The next statement of the tutorial, when it runs a pipeline; the
\* statement after it waits for the request to be done.
NotebookRun(k) ==
    /\ Idle
    /\ pc <= Len(Notebook)
    /\ Notebook[pc].op = "run"
    /\ Built(Notebook[pc].pipeline)
    /\ BeginRequest(Notebook[pc].pipeline, k)
    /\ pc' = pc + 1
    /\ UNCHANGED <<doc, components, graph, return_embedding, active, ret>>

\* A node with input waiting runs once none of its predecessors has input
\* waiting; the nodes that take the edge it returns get input.
Runnable(g, waiting, name) ==
    /\ name \in waiting
    /\ Predecessors(g, name) \cap waiting = {}

\* The calls block: nothing is called while a node's run has not returned.
\* (The variant below calls a node whatever is under way.)
Free_always(calls) == TRUE

Free(calls) == calls = {}

\* The call of a runnable node's run.
InvokeNode(name) ==
    /\ Runnable(graph[running], pending, name)
    /\ name \notin active
    /\ Free(active)
    /\ active' = active \cup {name}
    /\ UNCHANGED <<doc, components, graph, pc, return_embedding, running, kwargs, pending, ran, ret>>

\* The return of a node's run: its result, and the nodes it gives input to.
RunNode(name) ==
    /\ name \in active
    /\ LET g == graph[running]
           out == ComponentRun(Node(g, name).component, kwargs)
       IN  /\ ran' = Append(ran, [node |-> name, data |-> out[1], edge |-> out[2]])
           /\ pending' = (pending \ {name}) \cup NextNodes(g, name, out[2])
    /\ active' = active \ {name}
    /\ UNCHANGED <<doc, components, graph, pc, return_embedding, running, kwargs, ret>>

Next ==
    \/ NotebookStep
    \/ SetReturnEmbedding
    \/ NewGenerativeQAPipeline
    \/ \E k \in QueryKwargs : NotebookRun(k)
    \/ \E p \in YamlPipelines : LoadFromYaml(p)
    \/ \E p \in YamlPipelines : \E k \in QueryKwargs \cup FileKwargs : Start(p, k)
    \/ \E n \in pending : InvokeNode(n)
    \/ \E n \in active : RunNode(n)

Spec == Init /\ [][Next]_vars

----------------------------------------------------------------------------
(* A custom node called directly *)

\* cls().run(**k)
CallRun(cls, k) ==
    /\ LET out == IF cls = "QueryClassifier" THEN QueryClassifier_run(k)
                  ELSE NodeTemplate_run(k)
       IN  ret' = [cls |-> cls, kwargs |-> k, data |-> out[1], edge |-> out[2]]
    /\ UNCHANGED <<doc, components, graph, pc, return_embedding, running, kwargs, pending, ran, active>>

NodesNext == \E cls \in CustomNodes : \E k \in QueryKwargs : CallRun(cls, k)

SpecNodes == Init /\ [][NodesNext]_vars

----------------------------------------------------------------------------
(* Properties *)

\* The graph of a pipeline as its descriptor states it.
ConfigGraph(cfg) == [root |-> RootOf(cfg.type), nodes |-> cfg.nodes]

\* The nodes reached from the nodes S in at most k more steps.
RECURSIVE ReachFrom(_, _, _)
ReachFrom(E, S, k) ==
    IF k = 0 THEN S
    ELSE ReachFrom(E, S \cup {e.to : e \in {x \in E : x.from \in S}}, k - 1)

Successors(g, name) == {e.to : e \in {x \in Edges(g) : x.from = name}}

Acyclic(g) ==
    \A n \in NodeNames(g) :
        n \notin ReachFrom(Edges(g), Successors(g, n), Cardinality(NodeNames(g)))

InputNames(g) ==
    UNION {{InputNode(n.inputs[i]) : i \in DOMAIN n.inputs} : n \in Range(g.nodes)}

RanNodes == {ran[i].node : i \in DOMAIN ran}

Done(p) == running = p /\ pending = {}

\* C1: in every pipeline of the descriptor, and in the graph loaded from it,
\* every name in a node's inputs is a node of the same pipeline, a declared
\* component, or one of the sentinels Query and File.
C1_InputsResolve ==
    LET y == Descriptor(doc)
    IN  /\ \A cfg \in Range(y.pipelines) :
               InputNames(ConfigGraph(cfg))
                   \subseteq NodeNames(ConfigGraph(cfg)) \cup ComponentNames(y) \cup Sentinels
        /\ \A p \in YamlPipelines :
               InputNames(graph[p])
                   \subseteq NodeNames(graph[p]) \cup ComponentNames(y) \cup Sentinels

\* C1: a pipeline is loaded in which a node takes another node as input.
C1_Witness ==
    \E p \in YamlPipelines : \E n \in Range(graph[p].nodes) :
        /\ InputNode(n.inputs[1]) \notin Sentinels
        /\ InputNode(n.inputs[1]) \in NodeNames(graph[p])

\* C2: the graph of every pipeline of the descriptor, and of every pipeline
\* built or loaded so far, has no node that is reachable from itself.
C2_Acyclic ==
    /\ \A cfg \in Range(Descriptor(doc).pipelines) : Acyclic(ConfigGraph(cfg))
    /\ \A p \in Pipelines : Acyclic(graph[p])

\* C2: the three pipelines of the tutorial are built and the indexing
\* pipeline is loaded.
C2_Witness ==
    /\ pc > Len(Notebook)
    /\ Len(graph["p_extractive"].nodes) = 2
    /\ Len(graph["p_ensemble"].nodes) = 4
    /\ Len(graph["p_classifier"].nodes) = 4
    /\ Len(graph["indexing_pipeline"].nodes) = 4

\* The number of times a node of `names` was run for the request.
Runs(names) == Cardinality({i \in DOMAIN ran : ran[i].node \in names})

RanBefore(a, b) ==
    \E i \in DOMAIN ran : \E j \in DOMAIN ran : i < j /\ ran[i].node = a /\ ran[j].node = b

HasQuestionMark(k) == "?" \in Range(k.query)

Retrievers == {"ESRetriever", "DPRRetriever"}

\* C3: in a request to p_classifier the two retrievers are never both run,
\* and when the request is done exactly one of them has run, once.
C3_ExactlyOneRetriever ==
    running = "p_classifier" =>
        /\ Runs(Retrievers) <= 1
        /\ pending = {} => Runs(Retrievers) = 1

\* C3: a request to p_classifier is done, and DPRRetriever and the reader ran.
C3_Witness ==
    /\ Done("p_classifier")
    /\ "DPRRetriever" \in RanNodes
    /\ "ESRetriever" \notin RanNodes
    /\ "QAReader" \in RanNodes

\* C4: QueryClassifier.run returns the edge "output_2" when the query has a
\* "?" in it and "output_1" when it has none, and the keyword arguments it
\* was called with as its output data.
C4_QueryClassifierRun ==
    ret.cls = "QueryClassifier" =>
        /\ ret.data = ret.kwargs
        /\ HasQuestionMark(ret.kwargs) => ret.edge = "output_2"
        /\ ~HasQuestionMark(ret.kwargs) => ret.edge = "output_1"

\* C4: QueryClassifier.run was called with a query that has a "?" that is
\* not its last character.
C4_Witness ==
    /\ ret.cls = "QueryClassifier"
    /\ Len(ret.kwargs.query) >= 2
    /\ ret.kwargs.query[1] = "?"
    /\ ret.kwargs.query[Len(ret.kwargs.query)] # "?"
    /\ ret.edge = "output_2"

\* C5: a node runs only on an edge its upstream node returned (or on the
\* root's): every node run has an input whose node is the root or ran before
\* it and returned that input's edge. In p_classifier, ESRetriever runs only
\* for a query without "?" and DPRRetriever only for one with "?", and once
\* the request is done the one the query selects has run.
C5_RunsOnEmittedEdge ==
    /\ running # "" =>
          \A j \in DOMAIN ran :
              \E n \in Range(graph[running].nodes) :
                  /\ n.name = ran[j].node
                  /\ \E x \in DOMAIN n.inputs :
                        \/ /\ InputNode(n.inputs[x]) = graph[running].root
                           /\ InputEdge(n.inputs[x]) = "output_1"
                        \/ \E i \in 1..(j - 1) :
                              /\ ran[i].node = InputNode(n.inputs[x])
                              /\ ran[i].edge = InputEdge(n.inputs[x])
    /\ running = "p_classifier" =>
          /\ "ESRetriever" \in RanNodes => ~HasQuestionMark(kwargs)
          /\ "DPRRetriever" \in RanNodes => HasQuestionMark(kwargs)
          /\ pending = {} =>
                /\ ~HasQuestionMark(kwargs) => "ESRetriever" \in RanNodes
                /\ HasQuestionMark(kwargs) => "DPRRetriever" \in RanNodes

\* C5: a request to p_classifier with a query of letters only is done, and
\* ESRetriever ran.
C5_Witness ==
    /\ Done("p_classifier")
    /\ Len(kwargs.query) = MaxQueryLen
    /\ ~HasQuestionMark(kwargs)
    /\ "ESRetriever" \in RanNodes
    /\ "DPRRetriever" \notin RanNodes

\* C6: in a request to p_ensemble no node runs twice, JoinResults runs only
\* after both ESRetriever and DPRRetriever have run, Reader only after
\* JoinResults, and when the request is done both retrievers have run.
C6_Ensemble ==
    running = "p_ensemble" =>
        /\ \A n \in RanNodes : Runs({n}) = 1
        /\ "JoinResults" \in RanNodes =>
              /\ RanBefore("ESRetriever", "JoinResults")
              /\ RanBefore("DPRRetriever", "JoinResults")
        /\ "Reader" \in RanNodes => RanBefore("JoinResults", "Reader")
        /\ pending = {} => Retrievers \subseteq RanNodes

\* C6: a request to p_ensemble is done: DPRRetriever ran before ESRetriever,
\* then JoinResults, then Reader.
C6_Witness ==
    /\ Done("p_ensemble")
    /\ RanBefore("DPRRetriever", "ESRetriever")
    /\ RanBefore("JoinResults", "Reader")

\* The references among the components of a descriptor: from a component to
\* the value of each of its component-valued parameters.
ReferenceEdges(y) ==
    UNION {{[from |-> c.name, to |-> c.params[i].value] :
               i \in {x \in DOMAIN c.params : c.params[x].key \in ComponentParamKeys}} :
           c \in Range(y.components)}

\* C7: every component-valued parameter of a declared component names a
\* declared component, no component refers to itself through such
\* parameters, and every loaded instance holds, for each such parameter, the
\* loaded instance of the component it names, declared before it or after.
C7_ReferencesResolve ==
    LET y == Descriptor(doc)
        E == ReferenceEdges(y)
    IN  /\ \A e \in E : e.to \in ComponentNames(y)
        /\ \A n \in ComponentNames(y) :
              n \notin ReachFrom(E, {e.to : e \in {x \in E : x.from = n}},
                                 Cardinality(ComponentNames(y)))
        /\ \A c \in Range(components) :
              \A e \in {x \in E : x.from = c.name} :
                  \E r \in c.refs : \E t \in Range(components) :
                      /\ r.key \in ComponentParamKeys
                      /\ t.serial = r.serial
                      /\ t.name = e.to

\* The place of a component in the components list of the descriptor.
DeclaredAt(y, name) == CHOOSE i \in DOMAIN y.components : y.components[i].name = name

\* C7: ESRetriever of test_pipeline.yaml is loaded, and its document_store
\* is the instance of DocumentStore, which is declared after it.
C7_Witness ==
    /\ doc = "test_pipeline.yaml"
    /\ DeclaredAt(Descriptor(doc), "ESRetriever") < DeclaredAt(Descriptor(doc), "DocumentStore")
    /\ \E c \in Range(components) : \E t \in Range(components) :
          /\ c.name = "ESRetriever"
          /\ t.name = "DocumentStore"
          /\ [key |-> "document_store", serial |-> t.serial] \in c.refs

\* C8: no component is instantiated twice: the instances have distinct
\* names, they are no more than the declared components, and nodes of the
\* same name in the pipelines loaded from the descriptor have the same
\* instance, which is one of the loaded ones.
C8_LoadedOnce ==
    /\ Len(components) <= Len(Descriptor(doc).components)
    /\ \A i \in DOMAIN components : \A j \in DOMAIN components :
          components[i].name = components[j].name => i = j
    /\ \A p \in YamlPipelines : \A q \in YamlPipelines :
          \A n \in Range(graph[p].nodes) : \A m \in Range(graph[q].nodes) :
              n.name = m.name => n.component = m.component
    /\ \A p \in YamlPipelines : \A n \in Range(graph[p].nodes) :
          \E c \in Range(components) :
              c.name = n.component.obj /\ c.serial = n.component.serial

\* C8: query_pipeline and indexing_pipeline are both loaded, and their
\* ESRetriever nodes have the same instance.
C8_Witness ==
    /\ Len(graph["query_pipeline"].nodes) = 2
    /\ Len(graph["indexing_pipeline"].nodes) = 4
    /\ Node(graph["query_pipeline"], "ESRetriever").component
          = Node(graph["indexing_pipeline"], "ESRetriever").component
    /\ Len(components) = 5

\* C9: the edge a custom node's run returns is one of output_1 .. output_N,
\* N the outgoing_edges of its class: NodeTemplate returns output_1, and
\* QueryClassifier output_1 or output_2.
C9_EdgeWithinOutgoingEdges ==
    ret.cls # "" =>
        /\ ret.edge \in EdgeNames(ret.cls)
        /\ ret.cls = "NodeTemplate" => ret.edge = "output_1"
        /\ ret.cls = "QueryClassifier" => ret.edge \in {"output_1", "output_2"}

\* C9: NodeTemplate.run was called on a query with a "?" and returned
\* output_1.
C9_Witness ==
    /\ ret.cls = "NodeTemplate"
    /\ "?" \in Range(ret.kwargs.query)
    /\ ret.edge = "output_1"
    /\ ret.data = ret.kwargs

\* C10: every node of a pipeline of the descriptor has the name of a declared
\* component (in test_pipeline.yaml the nodes are ESRetriever, Reader,
\* PDFConverter, Preprocessor and DocumentStore), and every node of a loaded
\* pipeline has the instance of the component of its name.
C10_NodesAreComponents ==
    LET y == Descriptor(doc)
    IN  /\ \A cfg \in Range(y.pipelines) : NodeNames(ConfigGraph(cfg)) \subseteq ComponentNames(y)
        /\ doc = "test_pipeline.yaml" =>
              UNION {NodeNames(ConfigGraph(cfg)) : cfg \in Range(y.pipelines)}
                  = {"ESRetriever", "Reader", "PDFConverter", "Preprocessor", "DocumentStore"}
        /\ \A p \in YamlPipelines : \A n \in Range(graph[p].nodes) :
              /\ n.name \in ComponentNames(y)
              /\ n.component.obj = n.name
              /\ n.component.type = Definition(y, n.name).type

\* C10: indexing_pipeline is loaded, and its node DocumentStore has the
\* instance of the component DocumentStore.
C10_Witness ==
    /\ Len(graph["indexing_pipeline"].nodes) = 4
    /\ Node(graph["indexing_pipeline"], "DocumentStore").component.obj = "DocumentStore"
    /\ Node(graph["indexing_pipeline"], "DocumentStore").component.type
          = "ElasticsearchDocumentStore"

\* C11: in a request no node is run twice, a node that is being run has not
\* run before, and at most one node is being run at any time.
C11_SequentialNoRetry ==
    /\ Cardinality(active) <= 1
    /\ \A n \in RanNodes : Runs({n}) = 1
    /\ active \cap RanNodes = {}
    /\ active \subseteq pending

\* C11: in a request to p_extractive the Reader is being run, after the
\* Retriever has run and returned.
C11_Witness ==
    /\ running = "p_extractive"
    /\ active = {"Reader"}
    /\ RanNodes = {"Retriever"}

\* C12: document_store.return_embedding is True while the request to
\* p_generator is under way and False while a request to p_extractive,
\* p_ensemble or p_classifier is; it is False from the end of the
\* generative pipeline's cell on.
C12_ReturnEmbedding ==
    /\ running = "p_generator" /\ pending # {} => return_embedding = TRUE
    /\ running \in NotebookPipelines /\ pending # {} => return_embedding = FALSE
    /\ pc > Len(PGenerator) => return_embedding = FALSE

\* C12: the Generator of p_generator is being run, with the flag set.
C12_Witness ==
    /\ running = "p_generator"
    /\ active = {"Generator"}
    /\ return_embedding = TRUE

\* The sentinel sources among the inputs of a node.
SentinelInputs(n) == {InputNode(n.inputs[i]) : i \in DOMAIN n.inputs} \cap Sentinels

\* The nodes of a graph that take a sentinel source as an input.
RootNodes(g) == {n \in Range(g.nodes) : SentinelInputs(n) # {}}

\* The sentinel source of a pipeline of the given type.
SentinelOfType(type) ==
    CASE type = "Query" -> "Query"
      [] type = "Indexing" -> "File"
      [] OTHER -> ""

\* One node of g takes a sentinel, that sentinel is `sentinel`, and every
\* other node is reachable from that node.
SingleRoot(g, sentinel) ==
    /\ Cardinality(RootNodes(g)) = 1
    /\ \A n \in RootNodes(g) :
          /\ SentinelInputs(n) = {sentinel}
          /\ NodeNames(g) \ {n.name}
                \subseteq ReachFrom(Edges(g), Successors(g, n.name), Cardinality(NodeNames(g)))

\* C13: each pipeline of test_pipeline.yaml has exactly one node with a
\* sentinel among its inputs, Query for the pipeline of type Query and File
\* for the one of type Indexing, and every other node of the pipeline is
\* reachable from that node; so has the graph loaded from it, whose root is
\* that sentinel.
C13_SingleRootOfType ==
    doc = "test_pipeline.yaml" =>
        /\ \A cfg \in Range(Descriptor(doc).pipelines) :
              /\ cfg.type \in {"Query", "Indexing"}
              /\ SingleRoot(ConfigGraph(cfg), SentinelOfType(cfg.type))
        /\ \A p \in YamlPipelines :
              Built(p) =>
                  /\ graph[p].root = SentinelOfType(PipelineConfig(Descriptor(doc), p).type)
                  /\ SingleRoot(graph[p], graph[p].root)

\* C13: indexing_pipeline of test_pipeline.yaml is loaded, and a request to
\* it from File has run its four nodes.
C13_Witness ==
    /\ doc = "test_pipeline.yaml"
    /\ graph["indexing_pipeline"].root = "File"
    /\ Done("indexing_pipeline")
    /\ RanNodes = NodeNames(graph["indexing_pipeline"])
    /\ Len(ran) = 4

\* The names of the records of a sequence are pairwise different.
UniqueNames(seq) ==
    \A i \in DOMAIN seq : \A j \in DOMAIN seq : seq[i].name = seq[j].name => i = j

\* C14: no two components of the descriptor have the same name, no two of
\* its pipelines have, and no two nodes of one pipeline have, in the
\* descriptor and in every graph loaded or built with add_node.
C14_UniqueNames ==
    LET y == Descriptor(doc)
    IN  /\ UniqueNames(y.components)
        /\ UniqueNames(y.pipelines)
        /\ \A cfg \in Range(y.pipelines) : UniqueNames(cfg.nodes)
        /\ \A p \in Pipelines : UniqueNames(graph[p].nodes)
        /\ UniqueNames(components)

\* C14: p_ensemble has its four nodes, and both pipelines of
\* test_pipeline.yaml are loaded, with ESRetriever a node of each.
C14_Witness ==
    /\ Len(graph["p_ensemble"].nodes) = 4
    /\ Cardinality(NodeNames(graph["p_ensemble"])) = 4
    /\ "ESRetriever" \in NodeNames(graph["query_pipeline"])
    /\ "ESRetriever" \in NodeNames(graph["indexing_pipeline"])

====
